---- MODULE Spec2Model ----
(***************************************************************************)
(* Model of ExcelSurveyTransformer (src/excel_to_json.py): the column      *)
(* resolution (_find_column_for_question), the value cleaning              *)
(* (_clean_value, _process_multiple_choice) and the row loop of            *)
(* transform.                                                              *)
(*                                                                         *)
(* A Python string is a sequence of one-character strings.  A Python       *)
(* value (a cell of the table, a field of an output record) is a record    *)
(* [kind, s, n, l]: kind "None", "nan" (float NaN), "str" (text s),        *)
(* "num" (integer n) or "list" (list l of texts).                          *)
(***************************************************************************)
EXTENDS Integers, Sequences, FiniteSets, TLC

VARIABLES
    columns,            \* self.raw_data.columns: the ordered headers
    rows,               \* self.raw_data: the rows, each a sequence of cells
    questions,          \* self.schema['questions']: ordered (key, info) items
    pc,                 \* position of the running operation
    index,              \* transform: index of the row being processed
    qpos,               \* transform: position in questions.items()
    transformed_row,    \* transform: the record being built
    transformed_data,   \* self.transformed_data
    resolve_calls,      \* calls of _find_column_for_question, per question_key
    warnings,           \* "No column found" lines printed, per question_key
    arg,                \* argument of the function under study
    result              \* what the function under study returned

vars == <<columns, rows, questions, pc, index, qpos, transformed_row,
          transformed_data, resolve_calls, warnings, arg, result>>

(***************************************************************************)
(* Bounds of the model.                                                    *)
(***************************************************************************)
MaxRows == 2        \* rows of the table
MaxHeaderChars == 3 \* characters of all the headers of a table together
MaxTextLen == 2     \* length of a question text
MaxValueLen == 3    \* length of a cell's text
MaxNum == 1         \* numeric cells range over -MaxNum..MaxNum

(***************************************************************************)
(* Python values.                                                          *)
(***************************************************************************)
None == [kind |-> "None", s |-> <<>>, n |-> 0, l |-> <<>>]
NaN == [kind |-> "nan", s |-> <<>>, n |-> 0, l |-> <<>>]
Str(s) == [kind |-> "str", s |-> s, n |-> 0, l |-> <<>>]
Num(n) == [kind |-> "num", s |-> <<>>, n |-> n, l |-> <<>>]
List(l) == [kind |-> "list", s |-> <<>>, n |-> 0, l |-> l]

(***************************************************************************)
(* Characters.                                                             *)
(***************************************************************************)
LowerCase ==
    <<"a", "b", "c", "d", "e", "f", "g", "h", "i", "j", "k", "l", "m",
      "n", "o", "p", "q", "r", "s", "t", "u", "v", "w", "x", "y", "z">>
UpperCase ==
    <<"A", "B", "C", "D", "E", "F", "G", "H", "I", "J", "K", "L", "M",
      "N", "O", "P", "Q", "R", "S", "T", "U", "V", "W", "X", "Y", "Z">>
Digits == <<"0", "1", "2", "3", "4", "5", "6", "7", "8", "9">>

Range(f) == {f[i] : i \in DOMAIN f}

\* str.isspace / the regex class \s
IsSpace(c) == c \in {" ", "\t", "\n", "\r"}

\* the regex class \w
WordChars == Range(LowerCase) \cup Range(UpperCase) \cup Range(Digits) \cup {"_"}
IsWord(c) == c \in WordChars

\* str.lower on one character
LowerOf == [c \in Range(UpperCase) |->
               LowerCase[CHOOSE i \in DOMAIN UpperCase : UpperCase[i] = c]]
LowerChar(c) == IF c \in DOMAIN LowerOf THEN LowerOf[c] ELSE c

(***************************************************************************)
(* String methods.                                                         *)
(***************************************************************************)
lower(s) == [i \in DOMAIN s |-> LowerChar(s[i])]

RECURSIVE lstrip(_)
lstrip(s) == IF s # <<>> /\ IsSpace(Head(s)) THEN lstrip(Tail(s)) ELSE s

RECURSIVE rstrip(_)
rstrip(s) ==
    IF s # <<>> /\ IsSpace(s[Len(s)]) THEN rstrip(SubSeq(s, 1, Len(s) - 1)) ELSE s

strip(s) == rstrip(lstrip(s))

\* s.replace(c, '')
replace(s, c) == SelectSeq(s, LAMBDA d : d # c)

\* sub in s
Contains(sub, s) ==
    \E i \in 0..(Len(s) - Len(sub)) : SubSeq(s, i + 1, i + Len(sub)) = sub

\* s.split(sep) for a one-character separator
RECURSIVE split(_, _)
split(s, sep) ==
    IF \E i \in DOMAIN s : s[i] = sep
    THEN LET i == CHOOSE k \in DOMAIN s : s[k] = sep /\ \A m \in 1..(k - 1) : s[m] # sep
         IN  <<SubSeq(s, 1, i - 1)>> \o split(SubSeq(s, i + 1, Len(s)), sep)
    ELSE <<s>>

\* str(n) for an integer
RECURSIVE NatToStr(_)
NatToStr(n) ==
    IF n < 10 THEN <<Digits[n + 1]>> ELSE NatToStr(n \div 10) \o <<Digits[(n % 10) + 1]>>

IntToStr(n) == IF n < 0 THEN <<"-">> \o NatToStr(-n) ELSE NatToStr(n)

\* str(value)
str(value) ==
    CASE value.kind = "str" -> value.s
      [] value.kind = "num" -> IntToStr(value.n)
      [] value.kind = "nan" -> <<"n", "a", "n">>
      [] value.kind = "None" -> <<"N", "o", "n", "e">>

\* pd.isna(value)
isna(value) == value.kind \in {"None", "nan"}

\* bool(value): None, '' and 0 are false; NaN is a non-zero float
truthy(value) ==
    CASE value.kind = "None" -> FALSE
      [] value.kind = "str" -> value.s # <<>>
      [] value.kind = "num" -> value.n # 0
      [] value.kind = "nan" -> TRUE
      [] value.kind = "list" -> value.l # <<>>

(***************************************************************************)
(* _clean_value                                                            *)
(***************************************************************************)
\* variant: the text "nan" is kept as an answer
PlaceholdersWithoutNan == {<<>>, <<"n", "o", "n", "e">>, <<"-">>}

\* the texts that stand for "no answer"
Placeholders == {<<>>, <<"n", "a", "n">>, <<"n", "o", "n", "e">>, <<"-">>}

_clean_value(value) ==
    IF isna(value)
    THEN None
    ELSE LET stripped == strip(str(value))
             unquoted == replace(stripped, "\"")
             cleaned == replace(unquoted, "\\")
         IN  IF cleaned = <<>> \/ lower(cleaned) \in Placeholders
             THEN None
             ELSE Str(cleaned)

(***************************************************************************)
(* _normalize_question_text                                                *)
(***************************************************************************)
\* re.sub(r'\s+', ' ', s)
RECURSIVE CollapseSpaces(_)
CollapseSpaces(s) ==
    IF s = <<>>
    THEN <<>>
    ELSE IF IsSpace(Head(s))
         THEN <<" ">> \o CollapseSpaces(lstrip(s))
         ELSE <<Head(s)>> \o CollapseSpaces(Tail(s))

\* re.sub(r'[^\w\s]', '', s)
RemovePunctuation(s) == SelectSeq(s, LAMBDA c : IsWord(c) \/ IsSpace(c))

_normalize_question_text(text) ==
    IF ~truthy(text)
    THEN <<>>
    ELSE RemovePunctuation(CollapseSpaces(lower(strip(text.s))))

(***************************************************************************)
(* _find_column_for_question: three loops over the columns, each           *)
(* returning the first column that passes its test.                        *)
(***************************************************************************)
ExactTest(col, schema_question) == Str(strip(col)) = schema_question

NormalizedTest(col, schema_question) ==
    _normalize_question_text(Str(col)) = _normalize_question_text(schema_question)

\* variant: only "schema question contained in column" is tested
PartialTestOneWay(col, schema_question) ==
    LET col_normalized == _normalize_question_text(Str(col))
        schema_normalized == _normalize_question_text(schema_question)
    IN  schema_normalized # <<>> /\ Contains(schema_normalized, col_normalized)

PartialTest(col, schema_question) ==
    LET col_normalized == _normalize_question_text(Str(col))
        schema_normalized == _normalize_question_text(schema_question)
    IN  \/ Contains(schema_normalized, col_normalized)
        \/ Contains(col_normalized, schema_normalized)

\* variant: the loop keeps going and returns the last column that passes
RECURSIVE ExactLoopLast(_, _, _)
ExactLoopLast(cols, i, schema_question) ==
    IF i > Len(cols)
    THEN None
    ELSE LET later == ExactLoopLast(cols, i + 1, schema_question)
         IN  IF later # None
             THEN later
             ELSE IF ExactTest(cols[i], schema_question) THEN Str(cols[i]) ELSE None

RECURSIVE ExactLoop(_, _, _)
ExactLoop(cols, i, schema_question) ==
    IF i > Len(cols)
    THEN None
    ELSE IF ExactTest(cols[i], schema_question)
         THEN Str(cols[i])
         ELSE ExactLoop(cols, i + 1, schema_question)

RECURSIVE NormalizedLoop(_, _, _)
NormalizedLoop(cols, i, schema_question) ==
    IF i > Len(cols)
    THEN None
    ELSE IF NormalizedTest(cols[i], schema_question)
         THEN Str(cols[i])
         ELSE NormalizedLoop(cols, i + 1, schema_question)

RECURSIVE PartialLoop(_, _, _)
PartialLoop(cols, i, schema_question) ==
    IF i > Len(cols)
    THEN None
    ELSE IF PartialTest(cols[i], schema_question)
         THEN Str(cols[i])
         ELSE PartialLoop(cols, i + 1, schema_question)

\* variant: the normalized loop runs before the exact loop
FindNormalizedFirst(cols, schema_question) ==
    LET exact == ExactLoop(cols, 1, schema_question)
        normalized == NormalizedLoop(cols, 1, schema_question)
        partial == PartialLoop(cols, 1, schema_question)
    IN  IF normalized # None
        THEN normalized
        ELSE IF exact # None THEN exact ELSE partial

_find_column_for_question(cols, schema_question) ==
    LET exact == ExactLoop(cols, 1, schema_question)
        normalized == NormalizedLoop(cols, 1, schema_question)
        partial == PartialLoop(cols, 1, schema_question)
    IN  IF exact # None
        THEN exact
        ELSE IF normalized # None THEN normalized ELSE partial

(***************************************************************************)
(* _process_multiple_choice                                                *)
(***************************************************************************)
_process_multiple_choice(value) ==
    IF ~truthy(value)
    THEN None
    ELSE LET pieces == split(str(value), ";")
             parts == [i \in DOMAIN pieces |-> _clean_value(Str(pieces[i]))]
             clean_parts == SelectSeq(parts, truthy)
         IN  IF clean_parts # <<>>
             THEN List([i \in DOMAIN clean_parts |-> clean_parts[i].s])
             ELSE None

(***************************************************************************)
(* _skip_metadata_columns                                                  *)
(***************************************************************************)
metadata_indicators ==
    { <<"i", "d">>,
      <<"s", "t", "a", "r", "t", " ", "t", "i", "m", "e">>,
      <<"c", "o", "m", "p", "l", "e", "t", "i", "o", "n", " ", "t", "i", "m", "e">>,
      <<"e", "m", "a", "i", "l">>,
      <<"n", "a", "m", "e">>,
      <<"t", "i", "m", "e", "s", "t", "a", "m", "p">>,
      <<"r", "e", "s", "p", "o", "n", "s", "e", " ", "i", "d">>,
      <<"i", "p", " ", "a", "d", "d", "r", "e", "s", "s">> }

_skip_metadata_columns(col_name) ==
    \E indicator \in metadata_indicators : Contains(indicator, lower(col_name))

(***************************************************************************)
(* The type dispatch of transform.                                         *)
(***************************************************************************)
ProcessValue(question_type, raw_value) ==
    CASE question_type = "multiple_choice" -> _process_multiple_choice(raw_value)
      [] question_type = "open_text" -> _clean_value(raw_value)
      [] question_type = "single_choice" -> _clean_value(raw_value)
      [] question_type = "identifier" -> _clean_value(raw_value)
      [] OTHER -> _clean_value(raw_value)

(***************************************************************************)
(* Input sets.                                                             *)
(***************************************************************************)
\* the texts of at most n characters over chars
Texts(chars, n) == UNION {[1..k -> chars] : k \in 0..n}

Distinct(q) == \A i, j \in DOMAIN q : i # j => q[i] # q[j]

\* the lists of non-empty headers that hold at most budget characters
RECURSIVE HeaderListsWithin(_, _)
HeaderListsWithin(chars, budget) ==
    {<<>>} \cup
        UNION {{<<h>> \o rest : rest \in HeaderListsWithin(chars, budget - Len(h))} :
                   h \in Texts(chars, budget) \ {<<>>}}

\* pandas keeps the column labels of a table distinct
HeaderLists(chars, budget) == {q \in HeaderListsWithin(chars, budget) : Distinct(q)}

\* characters of headers and question texts: two cases of one letter,
\* whitespace, punctuation
HeaderChars == {"a", "A", " ", "?"}

\* characters of cell texts: letters of a placeholder, whitespace, the
\* stripped artifacts, the separator and the dash
ValueChars == {"a", "n", " ", "\"", "\\", ";", "-"}

CellValues ==
    {None, NaN}
        \cup {Num(n) : n \in (-MaxNum)..MaxNum}
        \cup {Str(s) : s \in Texts(ValueChars, MaxValueLen)}

(***************************************************************************)
(* Specification SpecValue: _clean_value and _process_multiple_choice      *)
(* applied to one cell value.                                              *)
(***************************************************************************)
InitValue ==
    /\ arg \in CellValues
    /\ result = <<>>
    /\ pc = "value"
    /\ columns = <<>>
    /\ rows = <<>>
    /\ questions = <<>>
    /\ index = 0
    /\ qpos = 0
    /\ transformed_row = <<>>
    /\ transformed_data = <<>>
    /\ resolve_calls = <<>>
    /\ warnings = <<>>

Untouched ==
    UNCHANGED <<columns, rows, questions, index, qpos, transformed_row,
                transformed_data, resolve_calls, warnings, arg>>

\* cleaned = self._clean_value(raw_value)
Clean ==
    /\ pc = "value"
    /\ result' = <<_clean_value(arg)>>
    /\ pc' = "cleaned"
    /\ Untouched

\* the cleaned value fed to _clean_value once more
CleanAgain ==
    /\ pc = "cleaned"
    /\ result' = Append(result, _clean_value(result[1]))
    /\ pc' = "recleaned"
    /\ Untouched

\* self._process_multiple_choice(raw_value, question_info)
MultipleChoice ==
    /\ pc = "value"
    /\ result' = <<_process_multiple_choice(arg)>>
    /\ pc' = "chosen"
    /\ Untouched

NextValue == Clean \/ CleanAgain \/ MultipleChoice

SpecValue == InitValue /\ [][NextValue]_vars

(***************************************************************************)
(* Specification SpecResolve: _find_column_for_question applied to one     *)
(* question text and one list of headers.                                  *)
(***************************************************************************)
InitResolve ==
    /\ columns \in HeaderLists(HeaderChars, MaxHeaderChars)
    /\ arg \in {None} \cup {Str(s) : s \in Texts(HeaderChars, MaxTextLen)}
    /\ result = <<>>
    /\ pc = "question"
    /\ rows = <<>>
    /\ questions = <<>>
    /\ index = 0
    /\ qpos = 0
    /\ transformed_row = <<>>
    /\ transformed_data = <<>>
    /\ resolve_calls = <<>>
    /\ warnings = <<>>

\* column_name = self._find_column_for_question(question_text)
Resolve ==
    /\ pc = "question"
    /\ result' = <<_find_column_for_question(columns, arg)>>
    /\ pc' = "resolved"
    /\ Untouched

NextResolve == Resolve

SpecResolve == InitResolve /\ [][NextResolve]_vars

(***************************************************************************)
(* Specification Spec: transform over a loaded table and schema.           *)
(***************************************************************************)
\* the headers of the tables: a survey column and a column that
\* _skip_metadata_columns takes for metadata
TableHeaders == {<<"Q">>, <<"I", "d">>}

\* the cells of a survey column: an empty cell, an absent value, an answer
AnswerCells == {NaN, None, Str(<<"a">>)}

\* the cells of the metadata column: a respondent number
IdCells == {Num(7)}

TableCells(header) == IF header = <<"I", "d">> THEN IdCells ELSE AnswerCells

\* the question texts of the schemas: the survey column's header, the
\* metadata column's header in another case, a text no header matches
QuestionTexts == {Str(<<"Q">>), Str(<<"i", "d">>), Str(<<"z">>)}

QuestionTypes ==
    {"multiple_choice", "open_text", "single_choice", "identifier", "rating"}

\* the keys of the schemas, in the order of the JSON object: distinct, and
\* free to include the name response_id
KeyLists ==
    {<<>>, <<"q1">>, <<"response_id">>, <<"q1", "q2">>, <<"q1", "response_id">>}

QuestionInfos == [question : QuestionTexts, type : QuestionTypes]

\* a schema: the (question_key, question_info) items of schema['questions']
Schemas ==
    UNION {{[i \in DOMAIN keys |->
                [key |-> keys[i], question |-> infos[i].question, type |-> infos[i].type]] :
                infos \in [DOMAIN keys -> QuestionInfos]} :
              keys \in KeyLists}

TableRows(cols) ==
    {r \in [1..Len(cols) -> AnswerCells \cup IdCells] :
        \A i \in DOMAIN cols : r[i] \in TableCells(cols[i])}

\* a sheet without columns has no rows
Tables(cols) ==
    UNION {[1..k -> TableRows(cols)] : k \in 0..(IF cols = <<>> THEN 0 ELSE MaxRows)}

Keys(qs) == {qs[i].key : i \in DOMAIN qs}

\* __init__, _load_data, _load_schema
Init ==
    /\ columns \in {q \in UNION {[1..k -> TableHeaders] : k \in 0..Cardinality(TableHeaders)} :
                       Distinct(q)}
    /\ rows \in Tables(columns)
    /\ questions \in Schemas
    /\ transformed_data = <<>>
    /\ transformed_row = <<>>
    /\ pc = "loaded"
    /\ index = 0
    /\ qpos = 0
    /\ resolve_calls = [k \in Keys(questions) |-> 0]
    /\ warnings = [k \in Keys(questions) |-> 0]
    /\ arg = <<>>
    /\ result = <<>>

Loaded == UNCHANGED <<columns, rows, questions, arg, result>>

\* d[k] = v on a dict
Put(d, k, v) == [x \in DOMAIN d \cup {k} |-> IF x = k THEN v ELSE d[x]]

\* row.get(column_name)
RowGet(row, column_name) ==
    IF \E i \in DOMAIN columns : columns[i] = column_name
    THEN row[CHOOSE i \in DOMAIN columns : columns[i] = column_name]
    ELSE None

\* transform, up to the row loop
TransformStart ==
    /\ pc = "loaded"
    /\ transformed_data' = <<>>
    /\ index' = 0
    /\ pc' = "rows"
    /\ UNCHANGED <<qpos, transformed_row, resolve_calls, warnings>>
    /\ Loaded

\* for index, row in self.raw_data.iterrows(): a new record
RowBegin ==
    /\ pc = "rows"
    /\ index < Len(rows)
    /\ transformed_row' = Put(<<>>, "response_id", Num(index + 1))
    /\ qpos' = 1
    /\ pc' = "questions"
    /\ UNCHANGED <<index, transformed_data, resolve_calls, warnings>>
    /\ Loaded

\* the question the inner loop is at, and the column found for it
Item == questions[qpos]
column_name == _find_column_for_question(columns, Item.question)

\* variant: the unresolved question is skipped like a metadata column
QuestionUnresolvedSkipped ==
    /\ pc = "questions"
    /\ qpos <= Len(questions)
    /\ column_name = None
    /\ resolve_calls' = [resolve_calls EXCEPT ![Item.key] = @ + 1]
    /\ warnings' = [warnings EXCEPT ![Item.key] = @ + 1]
    /\ qpos' = qpos + 1
    /\ UNCHANGED <<pc, index, transformed_data, transformed_row>>
    /\ Loaded

\* variant: the warning is printed for the first row only
QuestionUnresolvedWarnOnce ==
    /\ pc = "questions"
    /\ qpos <= Len(questions)
    /\ column_name = None
    /\ resolve_calls' = [resolve_calls EXCEPT ![Item.key] = @ + 1]
    /\ warnings' = [warnings EXCEPT ![Item.key] = 1]
    /\ transformed_row' = Put(transformed_row, Item.key, None)
    /\ qpos' = qpos + 1
    /\ UNCHANGED <<pc, index, transformed_data>>
    /\ Loaded

\* one question of the inner loop: no column found
QuestionUnresolved ==
    /\ pc = "questions"
    /\ qpos <= Len(questions)
    /\ column_name = None
    /\ resolve_calls' = [resolve_calls EXCEPT ![Item.key] = @ + 1]
    /\ warnings' = [warnings EXCEPT ![Item.key] = @ + 1]
    /\ transformed_row' = Put(transformed_row, Item.key, None)
    /\ qpos' = qpos + 1
    /\ UNCHANGED <<pc, index, transformed_data>>
    /\ Loaded

\* one question of the inner loop: the column found is a metadata column
QuestionSkipped ==
    /\ pc = "questions"
    /\ qpos <= Len(questions)
    /\ column_name # None
    /\ _skip_metadata_columns(column_name.s)
    /\ resolve_calls' = [resolve_calls EXCEPT ![Item.key] = @ + 1]
    /\ qpos' = qpos + 1
    /\ UNCHANGED <<pc, index, transformed_data, transformed_row, warnings>>
    /\ Loaded

\* one question of the inner loop: the cell is fetched and processed
QuestionValue ==
    /\ pc = "questions"
    /\ qpos <= Len(questions)
    /\ column_name # None
    /\ ~_skip_metadata_columns(column_name.s)
    /\ LET raw_value == RowGet(rows[index + 1], column_name.s)
       IN  transformed_row' =
               Put(transformed_row, Item.key, ProcessValue(Item.type, raw_value))
    /\ resolve_calls' = [resolve_calls EXCEPT ![Item.key] = @ + 1]
    /\ qpos' = qpos + 1
    /\ UNCHANGED <<pc, index, transformed_data, warnings>>
    /\ Loaded

\* self.transformed_data.append(transformed_row), and on to the next row
RowAppend ==
    /\ pc = "questions"
    /\ qpos > Len(questions)
    /\ transformed_data' = Append(transformed_data, transformed_row)
    /\ index' = index + 1
    /\ pc' = "rows"
    /\ UNCHANGED <<qpos, transformed_row, resolve_calls, warnings>>
    /\ Loaded

\* the row loop is exhausted
TransformDone ==
    /\ pc = "rows"
    /\ index >= Len(rows)
    /\ pc' = "done"
    /\ UNCHANGED <<index, qpos, transformed_row, transformed_data,
                   resolve_calls, warnings>>
    /\ Loaded

Next ==
    \/ TransformStart
    \/ RowBegin
    \/ QuestionUnresolved
    \/ QuestionSkipped
    \/ QuestionValue
    \/ RowAppend
    \/ TransformDone

Spec == Init /\ [][Next]_vars

(***************************************************************************)
(* Claims about _clean_value and _process_multiple_choice (specification   *)
(* SpecValue).                                                             *)
(***************************************************************************)
\* C5: clean is idempotent: cleaning a cleaned value changes nothing.
C5_CleanIdempotent == pc = "recleaned" => result[2] = result[1]

\* the reference of C6: null for a missing cell; otherwise the parts of the
\* textual form between ';' that do not clean to null, cleaned, in order,
\* or null when there is none
MultipleChoiceReference(value) ==
    IF isna(value)
    THEN None
    ELSE LET pieces == split(str(value), ";")
             kept == SelectSeq(pieces, LAMBDA p : _clean_value(Str(p)) # None)
         IN  IF kept = <<>>
             THEN None
             ELSE List([i \in DOMAIN kept |-> _clean_value(Str(kept[i])).s])

\* C6: for every raw cell value, string or number, the multiple_choice
\* result equals the reference; it is never an empty sequence and never
\* holds an empty string.
C6_MultipleChoiceMatchesReference ==
    pc = "chosen" =>
        /\ result[1] = MultipleChoiceReference(arg)
        /\ result[1].kind \in {"None", "list"}
        /\ result[1].kind = "list" =>
               /\ result[1].l # <<>>
               /\ \A i \in DOMAIN result[1].l : result[1].l[i] # <<>>

(***************************************************************************)
(* Claims about transform (specification Spec).                            *)
(***************************************************************************)
\* the column a question resolves to
Resolved(i) == _find_column_for_question(columns, questions[i].question)

Unresolved(i) == Resolved(i) = None
ToMetadata(i) == Resolved(i) # None /\ _skip_metadata_columns(Resolved(i).s)
ToSurvey(i) == Resolved(i) # None /\ ~_skip_metadata_columns(Resolved(i).s)

\* C3: a question resolved to a metadata column is absent as a key from
\* every output record.
C3_MetadataQuestionAbsent ==
    \A k \in DOMAIN transformed_data : \A i \in DOMAIN questions :
        ToMetadata(i) => questions[i].key \notin DOMAIN transformed_data[k]

\* C4: a question no strategy finds a header for is present with value
\* null in every output record, and transform runs on to one record per row.
C4_UnresolvedQuestionIsNull ==
    /\ \A k \in DOMAIN transformed_data : \A i \in DOMAIN questions :
           Unresolved(i) =>
               /\ questions[i].key \in DOMAIN transformed_data[k]
               /\ transformed_data[k][questions[i].key] = None
    /\ pc = "done" => Len(transformed_data) = Len(rows)

\* two rows, an unresolved question ahead of a question that gets a value
C4_Witness ==
    /\ pc = "done"
    /\ Len(rows) = 2
    /\ Len(transformed_data) = 2
    /\ Len(questions) = 2
    /\ Unresolved(1)
    /\ ToSurvey(2)
    /\ \A k \in 1..2 :
           /\ transformed_data[k][questions[1].key] = None
           /\ transformed_data[k][questions[2].key] = Str(<<"a">>)

\* C7: one record per row, in row order, the k-th with response_id = k,
\* whatever the cells hold and however the questions resolve.
C7_ResponseIdIsRowNumber ==
    /\ \A k \in DOMAIN transformed_data :
           /\ "response_id" \in DOMAIN transformed_data[k]
           /\ transformed_data[k]["response_id"] = Num(k)
    /\ pc = "done" => Len(transformed_data) = Len(rows)

C9_MissingCellIsNull ==
    \A k \in DOMAIN transformed_data : \A i \in DOMAIN questions :
        (ToSurvey(i) /\ isna(RowGet(rows[k], Resolved(i).s))) =>
            /\ questions[i].key \in DOMAIN transformed_data[k]
            /\ transformed_data[k][questions[i].key] = None

\* a multiple_choice question over an empty (NaN) cell and a question of an
\* unrecognized type over an absent (None) cell, both null in the records
C9_Witness ==
    /\ pc = "done"
    /\ Len(rows) = 2
    /\ Len(questions) = 2
    /\ questions[1].type = "multiple_choice"
    /\ questions[2].type = "rating"
    /\ ToSurvey(1)
    /\ ToSurvey(2)
    /\ RowGet(rows[1], Resolved(1).s) = NaN
    /\ RowGet(rows[2], Resolved(2).s) = None
    /\ transformed_data[1][questions[1].key] = None
    /\ transformed_data[2][questions[2].key] = None

(***************************************************************************)
(* Claims about _find_column_for_question (specification SpecResolve).     *)
(***************************************************************************)
found == result[1]

AnyExact == \E i \in DOMAIN columns : ExactTest(columns[i], arg)
AnyNormalized == \E i \in DOMAIN columns : NormalizedTest(columns[i], arg)
AnyPartial == \E i \in DOMAIN columns : PartialTest(columns[i], arg)

\* the test of the strategy that decides the result
DecidingTest(col) ==
    IF AnyExact
    THEN ExactTest(col, arg)
    ELSE IF AnyNormalized THEN NormalizedTest(col, arg) ELSE PartialTest(col, arg)

FoundIndex == CHOOSE i \in DOMAIN columns : columns[i] = found.s

\* C1: the first strategy that has any match decides the result: when some
\* header equals the question text after trimming, the result is such a
\* header; when none does but some header is equal after normalization, the
\* result is such a header; wherever the other matches sit.
C1_FirstStrategyDecides ==
    pc = "resolved" =>
        /\ AnyExact => (found # None /\ ExactTest(found.s, arg))
        /\ (~AnyExact /\ AnyNormalized) =>
               (found # None /\ NormalizedTest(found.s, arg))
        /\ (~AnyExact /\ ~AnyNormalized /\ AnyPartial) =>
               (found # None /\ PartialTest(found.s, arg))
        /\ (~AnyExact /\ ~AnyNormalized /\ ~AnyPartial) => found = None

\* an exact match in the second column beats a first column that matches
\* by normalized equality only
C1_Witness ==
    /\ pc = "resolved"
    /\ Len(columns) = 2
    /\ ~ExactTest(columns[1], arg)
    /\ NormalizedTest(columns[1], arg)
    /\ ExactTest(columns[2], arg)
    /\ found = Str(columns[2])

\* C2: within the deciding strategy the leftmost header wins: no header to
\* the left of the returned one satisfies that strategy.
C2_LeftmostWins ==
    (pc = "resolved" /\ found # None) =>
        /\ found.s \in Range(columns)
        /\ DecidingTest(found.s)
        /\ \A j \in 1..(FoundIndex - 1) : ~DecidingTest(columns[j])

\* two headers pass the deciding test and the first one is returned
C2_Witness ==
    /\ pc = "resolved"
    /\ Len(columns) = 2
    /\ DecidingTest(columns[1])
    /\ DecidingTest(columns[2])
    /\ found = Str(columns[1])

====
